---- MODULE Spec2Model ----
(***************************************************************************)
(* Model of policyengine_snapscreener_validation: the SNAP screener        *)
(* formula (calculator.py) driven the way its callers and tests drive it.  *)
(*                                                                         *)
(* Money is held in mills (1/1000 of a dollar).  Every input is a whole    *)
(* number of dollars, so each intermediate value of the pipeline (20% of   *)
(* earned income, half of adjusted income, 30% of net income) is an exact  *)
(* whole number of mills and the arithmetic below is exact decimal         *)
(* arithmetic.                                                             *)
(***************************************************************************)
EXTENDS Integers, FiniteSets, Sequences, TLC

\* The calculator and its caller.
VARIABLES household, result, household_without, result_without

\* The validator (validator.py), the PolicyEngine adapter (policyengine.py) and
\* the scraper (scraper.py).
VARIABLES
    caller,                 \* "none", "single" (validate_single called directly) or "batch"
    self_scraper,           \* whether SNAPValidator.__init__ built self.scraper
    objects,                \* the SNAPHousehold objects alive, by reference
    household_ref,          \* validate_single's parameter `household`
    household_at_call,      \* the fields of that object when validate_single was called
    args,                   \* include_tanf, trigger_sua, use_scraper of the call
    pc,                     \* where validate_single is
    pe_outcome,             \* what PolicyEngineCalculator.calculate did
    pe_result,              \* validate_single's local pe_result
    household_for_screener, \* validate_single's local of that name (a reference)
    playwright,             \* the sync_playwright() context: "none", "started", "stopped"
    browser,                \* the launched browser: "none", "open", "closed"
    pending,                \* the value SNAPScreenerScraper.calculate is about to return
    scraper_outcome,        \* what SNAPScreenerScraper.calculate did
    screener_result,        \* validate_single's local screener_result
    comparison,             \* what validate_single returned
    error,                  \* the exception that left validate_single or validate_scenarios
    calls,                  \* the calculations validate_single has invoked, in order
    scenarios,              \* validate_scenarios' parameter
    index,                  \* the position of its for loop in scenarios
    results,                \* its local results
    batch_pc                \* where validate_scenarios is

calculator_vars == <<household, result, household_without, result_without>>

call_vars ==
    <<objects, household_ref, household_at_call, args, pc, pe_outcome, pe_result,
      household_for_screener, playwright, browser, pending, scraper_outcome,
      screener_result, comparison, calls>>

batch_vars == <<scenarios, index, results, batch_pc>>

validator_vars == <<caller, self_scraper, call_vars, error, batch_vars>>

vars == <<calculator_vars, validator_vars>>

(***************************************************************************)
(* Bounds of the model.                                                    *)
(***************************************************************************)
MaxSize == 9
MaxEarnedSteps == 3
MaxUnearnedSteps == 2
MaxRentSteps == 2

(***************************************************************************)
(* Input values.  Sizes start at 0 and earned income at -1000 because the  *)
(* dataclass accepts them; the named amounts are the ones the tests use.   *)
(***************************************************************************)
Sizes == 0..MaxSize
EarnedValues == {k * 1000 : k \in -1..MaxEarnedSteps} \cup {2500, 10000}
UnearnedValues == {k * 800 : k \in 0..MaxUnearnedSteps} \cup {203}
RentValues == {k * 1000 : k \in 0..MaxRentSteps} \cup {1500}
DependentCareValues == {0, 500}
ChildSupportValues == {0, 200}
MedicalValues == {0, 135}

Dollars(d) == d * 1000

None == [kind |-> "None"]

(***************************************************************************)
(* calculator.py: SNAPHousehold.  A plain dataclass: the generated         *)
(* __init__ stores the fields and checks nothing.                          *)
(***************************************************************************)
SNAPHousehold(size, earned, unearned, rent, care, support, medical, elderly, utility) ==
    [size |-> size,
     monthly_earned_income |-> Dollars(earned),
     monthly_unearned_income |-> Dollars(unearned),
     monthly_rent |-> Dollars(rent),
     monthly_dependent_care |-> Dollars(care),
     monthly_child_support |-> Dollars(support),
     monthly_medical_expenses |-> Dollars(medical),
     has_elderly_disabled |-> elderly,
     has_utility_expenses |-> utility]

(***************************************************************************)
(* calculator.py: the class constants of SNAPScreenerCalculator.           *)
(***************************************************************************)
STANDARD_DEDUCTIONS ==
    (1 :> 198) @@ (2 :> 198) @@ (3 :> 198) @@ (4 :> 217) @@ (5 :> 255) @@ (6 :> 294)

MAX_ALLOTMENTS ==
    (1 :> 292) @@ (2 :> 536) @@ (3 :> 768) @@ (4 :> 975) @@ (5 :> 1158)
    @@ (6 :> 1390) @@ (7 :> 1536) @@ (8 :> 1756)

GROSS_INCOME_LIMITS ==
    (1 :> 1632) @@ (2 :> 2198) @@ (3 :> 2765) @@ (4 :> 3331) @@ (5 :> 3897)
    @@ (6 :> 4463) @@ (7 :> 5030) @@ (8 :> 5596)

NET_INCOME_LIMITS ==
    (1 :> 1255) @@ (2 :> 1691) @@ (3 :> 2127) @@ (4 :> 2563) @@ (5 :> 2998)
    @@ (6 :> 3434) @@ (7 :> 3870) @@ (8 :> 4305)

EXCESS_SHELTER_CAP == 624

\* 0.20, as a percentage
EARNED_INCOME_DEDUCTION_RATE == 20

Max(a, b) == IF a >= b THEN a ELSE b
Min(a, b) == IF a <= b THEN a ELSE b

(***************************************************************************)
(* A dictionary subscript limits[k]: the value, or KeyError when the key   *)
(* is missing.                                                             *)
(***************************************************************************)
Value(v) == [ok |-> TRUE, value |-> v]
KeyError(k) == [ok |-> FALSE, value |-> k]
GetItem(limits, k) == IF k \in DOMAIN limits THEN Value(limits[k]) ELSE KeyError(k)

(***************************************************************************)
(* calculator.py: SNAPScreenerCalculator._get_limit, in dollars.           *)
(***************************************************************************)
get_limit(household_size, limits) ==
    IF household_size \in DOMAIN limits
    THEN Value(limits[household_size])
    ELSE IF household_size > 8
         THEN LET base == GetItem(limits, 8)
                  seven == GetItem(limits, 7)
              IN  IF ~base.ok THEN base
                  ELSE IF ~seven.ok THEN seven
                  ELSE Value(base.value
                             + (household_size - 8) * (base.value - seven.value))
         ELSE Value(0)

(***************************************************************************)
(* Python's round(): to the nearest whole dollar, ties to the even         *)
(* dollar.  Takes and returns mills.                                       *)
(***************************************************************************)
unrounded(x) == x

round(x) ==
    LET q == x \div 1000
        r == x % 1000
    IN  IF r < 500 THEN Dollars(q)
        ELSE IF r > 500 THEN Dollars(q + 1)
        ELSE IF q % 2 = 0 THEN Dollars(q) ELSE Dollars(q + 1)

(***************************************************************************)
(* calculator.py: SNAPScreenerCalculator.calculate, step by step.          *)
(***************************************************************************)
\* Step 1
gross_income(h) == h.monthly_earned_income + h.monthly_unearned_income

\* Step 3, earned income deduction
earned_income_deduction(h) ==
    (h.monthly_earned_income * EARNED_INCOME_DEDUCTION_RATE) \div 100

\* Step 3, medical expense deduction
medical_deduction_for_everyone(h) ==
    IF h.monthly_medical_expenses > Dollars(35)
    THEN h.monthly_medical_expenses - Dollars(35)
    ELSE 0

medical_deduction(h) ==
    IF h.has_elderly_disabled /\ h.monthly_medical_expenses > Dollars(35)
    THEN h.monthly_medical_expenses - Dollars(35)
    ELSE 0

\* Step 4
adjusted_income(h, standard_deduction) ==
    gross_income(h) - standard_deduction - earned_income_deduction(h)
    - h.monthly_dependent_care - h.monthly_child_support - medical_deduction(h)

\* Step 5, total shelter costs
total_shelter_costs_flag_inverted(h) ==
    IF ~h.has_utility_expenses
    THEN h.monthly_rent + Dollars(500)
    ELSE h.monthly_rent

total_shelter_costs(h) ==
    IF h.has_utility_expenses
    THEN h.monthly_rent + Dollars(500)
    ELSE h.monthly_rent

\* Step 5, excess shelter deduction
excess_shelter_of_whole_income(h, adjusted) ==
    LET uncapped == Max(0, total_shelter_costs(h) - adjusted)
    IN  IF ~h.has_elderly_disabled
        THEN Min(uncapped, Dollars(EXCESS_SHELTER_CAP))
        ELSE uncapped

excess_shelter_cap_inverted(h, adjusted) ==
    LET half_adjusted_income == adjusted \div 2
        uncapped == Max(0, total_shelter_costs(h) - half_adjusted_income)
    IN  IF h.has_elderly_disabled
        THEN Min(uncapped, Dollars(EXCESS_SHELTER_CAP))
        ELSE uncapped

excess_shelter_always_capped(h, adjusted) ==
    LET half_adjusted_income == adjusted \div 2
        uncapped == Max(0, total_shelter_costs(h) - half_adjusted_income)
    IN  Min(uncapped, Dollars(EXCESS_SHELTER_CAP))

excess_shelter(h, adjusted) ==
    LET half_adjusted_income == adjusted \div 2
        uncapped == Max(0, total_shelter_costs(h) - half_adjusted_income)
    IN  IF ~h.has_elderly_disabled
        THEN Min(uncapped, Dollars(EXCESS_SHELTER_CAP))
        ELSE uncapped

\* Step 8, expected contribution
expected_contribution(net_income) == Max(0, (net_income * 30) \div 100)

\* Step 8, benefit amount, rounded
benefit_amount_unfloored(max_allotment, net_income) ==
    round(max_allotment - expected_contribution(net_income))

benefit_amount_operands_swapped(max_allotment, net_income) ==
    round(Max(0, expected_contribution(net_income) - max_allotment))

benefit_amount(max_allotment, net_income) ==
    round(Max(0, max_allotment - expected_contribution(net_income)))

\* The "is_eligible" entry of the returned dictionary
is_eligible_by_tests_only(passes_gross_test, passes_net_test, benefit) ==
    passes_gross_test /\ passes_net_test

is_eligible(passes_gross_test, passes_net_test, benefit) ==
    passes_gross_test /\ passes_net_test /\ benefit > 0

\* Steps 1 to 8 and the returned dictionary, given the four table values
\* (in dollars).
Pipeline_short_circuit(h, gross_limit_d, standard_deduction_d, net_limit_d, max_allotment_d) ==
    LET gross_limit == Dollars(gross_limit_d)
        passes_gross_test == gross_income(h) <= gross_limit
        standard_deduction == Dollars(standard_deduction_d)
        adjusted == adjusted_income(h, standard_deduction)
        excess == excess_shelter(h, adjusted)
        net_income == adjusted - excess
        net_limit == Dollars(net_limit_d)
        passes_net_test == net_income <= net_limit
        max_allotment == Dollars(max_allotment_d)
        benefit == IF passes_gross_test /\ passes_net_test
                   THEN benefit_amount(max_allotment, net_income)
                   ELSE 0
    IN  [kind |-> "report",
         gross_income |-> gross_income(h),
         gross_income_limit |-> gross_limit,
         passes_gross_test |-> passes_gross_test,
         standard_deduction |-> standard_deduction,
         earned_income_deduction |-> earned_income_deduction(h),
         dependent_care_deduction |-> h.monthly_dependent_care,
         child_support_deduction |-> h.monthly_child_support,
         medical_deduction |-> medical_deduction(h),
         adjusted_income |-> adjusted,
         excess_shelter_deduction |-> excess,
         net_income |-> net_income,
         net_income_limit |-> net_limit,
         passes_net_test |-> passes_net_test,
         max_allotment |-> max_allotment,
         expected_contribution |-> expected_contribution(net_income),
         benefit_amount |-> benefit,
         is_eligible |-> is_eligible(passes_gross_test, passes_net_test, benefit)]

Pipeline(h, gross_limit_d, standard_deduction_d, net_limit_d, max_allotment_d) ==
    LET gross_limit == Dollars(gross_limit_d)
        passes_gross_test == gross_income(h) <= gross_limit
        standard_deduction == Dollars(standard_deduction_d)
        adjusted == adjusted_income(h, standard_deduction)
        excess == excess_shelter(h, adjusted)
        net_income == adjusted - excess
        net_limit == Dollars(net_limit_d)
        passes_net_test == net_income <= net_limit
        max_allotment == Dollars(max_allotment_d)
        benefit == benefit_amount(max_allotment, net_income)
    IN  [kind |-> "report",
         gross_income |-> gross_income(h),
         gross_income_limit |-> gross_limit,
         passes_gross_test |-> passes_gross_test,
         standard_deduction |-> standard_deduction,
         earned_income_deduction |-> earned_income_deduction(h),
         dependent_care_deduction |-> h.monthly_dependent_care,
         child_support_deduction |-> h.monthly_child_support,
         medical_deduction |-> medical_deduction(h),
         adjusted_income |-> adjusted,
         excess_shelter_deduction |-> excess,
         net_income |-> net_income,
         net_income_limit |-> net_limit,
         passes_net_test |-> passes_net_test,
         max_allotment |-> max_allotment,
         expected_contribution |-> expected_contribution(net_income),
         benefit_amount |-> benefit,
         is_eligible |-> is_eligible(passes_gross_test, passes_net_test, benefit)]

Raised(e) == [kind |-> "raised", error |-> "KeyError", key |-> e.value]

(***************************************************************************)
(* calculator.py: SNAPScreenerCalculator.calculate.  The four lookups run  *)
(* in the order gross limit, standard deduction, net limit, max allotment; *)
(* the first one that raises ends the call.                                *)
(***************************************************************************)
calculate(h) ==
    LET gross_limit == get_limit(h.size, GROSS_INCOME_LIMITS)
        standard_deduction == get_limit(h.size, STANDARD_DEDUCTIONS)
        net_limit == get_limit(h.size, NET_INCOME_LIMITS)
        max_allotment == get_limit(h.size, MAX_ALLOTMENTS)
    IN  IF ~gross_limit.ok THEN Raised(gross_limit)
        ELSE IF ~standard_deduction.ok THEN Raised(standard_deduction)
        ELSE IF ~net_limit.ok THEN Raised(net_limit)
        ELSE IF ~max_allotment.ok THEN Raised(max_allotment)
        ELSE Pipeline(h, gross_limit.value, standard_deduction.value,
                      net_limit.value, max_allotment.value)

(***************************************************************************)
(* State: the household a caller holds and what calculate did with it, and *)
(* the household and result of the call before it when the caller compares *)
(* two households that differ in one field.                                *)
(***************************************************************************)
\* No reference, no exception.
NoRef == "null"
NoError == "no error"

\* No call of validate_single is in progress.
NoCall ==
    /\ objects = None
    /\ household_ref = NoRef
    /\ household_at_call = None
    /\ args = None
    /\ pc = "idle"
    /\ pe_outcome = None
    /\ pe_result = None
    /\ household_for_screener = NoRef
    /\ playwright = "none"
    /\ browser = "none"
    /\ pending = None
    /\ scraper_outcome = None
    /\ screener_result = None
    /\ comparison = None
    /\ calls = <<>>

\* No validator has been built.
NoValidator ==
    /\ caller = "none"
    /\ self_scraper = FALSE
    /\ NoCall
    /\ error = NoError
    /\ scenarios = <<>>
    /\ index = 0
    /\ results = <<>>
    /\ batch_pc = "idle"

Init ==
    /\ household = None
    /\ result = None
    /\ household_without = None
    /\ result_without = None
    /\ NoValidator

\* A caller constructs the household of its run.
Construct ==
    /\ household = None
    /\ \E size \in Sizes, earned \in EarnedValues, unearned \in UnearnedValues,
          rent \in RentValues, care \in DependentCareValues,
          support \in ChildSupportValues, medical \in MedicalValues,
          elderly \in BOOLEAN, utility \in BOOLEAN :
           household' = SNAPHousehold(size, earned, unearned, rent, care, support,
                                      medical, elderly, utility)
    /\ result' = None
    /\ household_without' = None
    /\ result_without' = None
    /\ UNCHANGED validator_vars

\* The caller runs calculate on the household it holds.
Calculate ==
    /\ household # None
    /\ result = None
    /\ result' = calculate(household)
    /\ UNCHANGED <<household, household_without, result_without>>
    /\ UNCHANGED validator_vars

\* After a call that returned, the caller constructs a second household that
\* differs from the first in its earned income only (an income sweep).
ConstructOtherIncome ==
    /\ household_without = None
    /\ result # None
    /\ result.kind = "report"
    /\ \E earned \in EarnedValues :
        /\ Dollars(earned) # household.monthly_earned_income
        /\ household' = [household EXCEPT !.monthly_earned_income = Dollars(earned)]
    /\ result' = None
    /\ household_without' = household
    /\ result_without' = result
    /\ UNCHANGED validator_vars

\* The same, the second household differing in one of the two flags only.
ConstructOtherFlag ==
    /\ household_without = None
    /\ result # None
    /\ result.kind = "report"
    /\ \/ household' = [household EXCEPT !.has_elderly_disabled = ~@]
       \/ household' = [household EXCEPT !.has_utility_expenses = ~@]
    /\ result' = None
    /\ household_without' = household
    /\ result_without' = result
    /\ UNCHANGED validator_vars

Next ==
    \/ Construct
    \/ Calculate
    \/ ConstructOtherIncome
    \/ ConstructOtherFlag

Spec == Init /\ [][Next]_vars

(***************************************************************************)
(* Vocabulary of the properties.                                           *)
(***************************************************************************)
\* The household invariant of the data model: size >= 1, no negative amount.
ValidHousehold(h) ==
    /\ h.size >= 1
    /\ h.monthly_earned_income >= 0
    /\ h.monthly_unearned_income >= 0
    /\ h.monthly_rent >= 0
    /\ h.monthly_dependent_care >= 0
    /\ h.monthly_child_support >= 0
    /\ h.monthly_medical_expenses >= 0

Called == household # None /\ result # None
Returned == Called /\ result.kind = "report"
RaisedError == Called /\ result.kind = "raised"

\* Two calls have returned, for households that differ in `field` only.
ComparedOn(field) ==
    /\ Returned
    /\ household_without # None
    /\ household[field] # household_without[field]
    /\ household = [household_without EXCEPT ![field] = household[field]]

\* The households of the end-to-end scenarios A and B.
ScenarioA == SNAPHousehold(4, 2500, 0, 1500, 0, 0, 0, FALSE, FALSE)
ScenarioB == SNAPHousehold(4, 10000, 0, 1500, 0, 0, 0, FALSE, FALSE)

(***************************************************************************)
(* C1: for every valid household (size >= 1, no negative amount),          *)
(* calculate returns a report and raises nothing, sizes above 8 included.  *)
(***************************************************************************)
C1_CalculateNeverRaises ==
    (Called /\ ValidHousehold(household)) => result.kind = "report"

(***************************************************************************)
(* C2: the report's max_allotment is the table value for sizes 1..8 and    *)
(* 1756 + (n - 8) * (1756 - 1536) for a size n > 8, so that calculate on a *)
(* household of size 9 reports max_allotment 1976.                         *)
(***************************************************************************)
C2_MaxAllotmentReported ==
    (Called /\ ValidHousehold(household)) =>
        /\ result.kind = "report"
        /\ result.max_allotment =
              IF household.size <= 8
              THEN Dollars(MAX_ALLOTMENTS[household.size])
              ELSE Dollars(1756 + (household.size - 8) * (1756 - 1536))

(***************************************************************************)
(* C3: a household with size < 1 or a negative amount cannot be            *)
(* constructed, so calculate never returns a report computed from one.     *)
(***************************************************************************)
C3_NoReportForInvalidHousehold ==
    Returned => ValidHousehold(household)

(***************************************************************************)
(* C4: for every valid household the reported benefit_amount is a whole    *)
(* number of dollars and is not negative.                                  *)
(***************************************************************************)
C4_BenefitWholeAndNonNegative ==
    (Returned /\ ValidHousehold(household)) =>
        /\ result.benefit_amount % 1000 = 0
        /\ result.benefit_amount >= 0

\* A valid household whose benefit was rounded up from 622.65 to 623.
C4_Witness ==
    /\ Returned
    /\ ValidHousehold(household)
    /\ result.max_allotment - result.expected_contribution = 622650
    /\ result.benefit_amount = Dollars(623)

(***************************************************************************)
(* C5: in every report, is_eligible holds exactly when both income tests   *)
(* pass and the benefit is positive, the gross test being gross_income <=  *)
(* gross_income_limit and the net test net_income <= net_income_limit.     *)
(***************************************************************************)
C5_EligibleIffTestsAndBenefit ==
    Returned =>
        /\ result.is_eligible <=>
              (result.passes_gross_test /\ result.passes_net_test
               /\ result.benefit_amount > 0)
        /\ result.passes_gross_test <=>
              (result.gross_income <= result.gross_income_limit)
        /\ result.passes_net_test <=>
              (result.net_income <= result.net_income_limit)

\* Both tests pass and yet the household is not eligible: the benefit is 0.
C5_Witness ==
    /\ Returned
    /\ ValidHousehold(household)
    /\ result.passes_gross_test
    /\ result.passes_net_test
    /\ result.benefit_amount = 0
    /\ ~result.is_eligible

(***************************************************************************)
(* C6: scenario A (size 4, earned 2500, unearned 0, rent 1500) reports     *)
(* gross income 2500, gross test passed, standard deduction 217, earned    *)
(* income deduction 500, adjusted income 1783, excess shelter deduction    *)
(* 608.5, net income 1174.5, net test passed, expected contribution        *)
(* 352.35, benefit 623, eligible.                                          *)
(***************************************************************************)
C6_ScenarioA ==
    (Called /\ household = ScenarioA) =>
        /\ result.kind = "report"
        /\ result.gross_income = Dollars(2500)
        /\ result.passes_gross_test
        /\ result.standard_deduction = Dollars(217)
        /\ result.earned_income_deduction = Dollars(500)
        /\ result.adjusted_income = Dollars(1783)
        /\ result.excess_shelter_deduction = 608500
        /\ result.net_income = 1174500
        /\ result.passes_net_test
        /\ result.expected_contribution = 352350
        /\ result.benefit_amount = Dollars(623)
        /\ result.is_eligible

C6_Witness == Returned /\ household = ScenarioA

(***************************************************************************)
(* C7: scenario B (as A, earned 10000) fails the gross test, has benefit 0 *)
(* (the expected contribution absorbs the whole max allotment) and is not  *)
(* eligible.                                                               *)
(***************************************************************************)
C7_ScenarioB ==
    (Called /\ household = ScenarioB) =>
        /\ result.kind = "report"
        /\ ~result.passes_gross_test
        /\ result.expected_contribution >= result.max_allotment
        /\ result.benefit_amount = 0
        /\ ~result.is_eligible

C7_Witness == Returned /\ household = ScenarioB

(***************************************************************************)
(* C8: of two households that differ in earned income only, the one with   *)
(* the higher earned income never has the higher benefit.                  *)
(***************************************************************************)
C8_BenefitNonIncreasingInEarnedIncome ==
    ComparedOn("monthly_earned_income") =>
        /\ (household_without.monthly_earned_income <= household.monthly_earned_income
              => result.benefit_amount <= result_without.benefit_amount)
        /\ (household.monthly_earned_income <= household_without.monthly_earned_income
              => result_without.benefit_amount <= result.benefit_amount)

\* A sweep step from a capped shelter deduction and a positive benefit to an
\* unfilled cap and a positive, strictly smaller, fractional-before-rounding
\* benefit.
C8_Witness ==
    /\ ComparedOn("monthly_earned_income")
    /\ ValidHousehold(household)
    /\ ValidHousehold(household_without)
    /\ household_without.monthly_earned_income < household.monthly_earned_income
    /\ result_without.excess_shelter_deduction = Dollars(EXCESS_SHELTER_CAP)
    /\ result.excess_shelter_deduction < Dollars(EXCESS_SHELTER_CAP)
    /\ result.benefit_amount > 0
    /\ result.benefit_amount < result_without.benefit_amount

(***************************************************************************)
(* C9: with has_elderly_disabled false the reported excess shelter         *)
(* deduction lies between 0 and 624.                                       *)
(***************************************************************************)
C9_ShelterDeductionCapped ==
    (Returned /\ ~household.has_elderly_disabled) =>
        /\ result.excess_shelter_deduction >= 0
        /\ result.excess_shelter_deduction <= Dollars(624)

\* The cap bites: shelter costs exceed half the adjusted income by more than 624.
C9_Witness ==
    /\ Returned
    /\ ValidHousehold(household)
    /\ ~household.has_elderly_disabled
    /\ total_shelter_costs(household) - result.adjusted_income \div 2 > Dollars(624)
    /\ result.excess_shelter_deduction = Dollars(624)

(***************************************************************************)
(* C10: of two households that differ in has_elderly_disabled only, the    *)
(* elderly/disabled one has the excess shelter deduction that is not       *)
(* smaller, and it is max(0, total shelter cost - adjusted_income / 2),    *)
(* uncapped.                                                               *)
(***************************************************************************)
C10_ElderlyShelterUncapped ==
    ComparedOn("has_elderly_disabled") =>
        LET elderly == IF household.has_elderly_disabled
                       THEN household ELSE household_without
            r_elderly == IF household.has_elderly_disabled
                         THEN result ELSE result_without
            r_other == IF household.has_elderly_disabled
                       THEN result_without ELSE result
        IN  /\ r_elderly.excess_shelter_deduction >= r_other.excess_shelter_deduction
            /\ r_elderly.excess_shelter_deduction =
                  Max(0, total_shelter_costs(elderly) - r_elderly.adjusted_income \div 2)

\* The elderly/disabled household's deduction exceeds the cap of the other.
C10_Witness ==
    /\ ComparedOn("has_elderly_disabled")
    /\ ValidHousehold(household)
    /\ household.has_elderly_disabled
    /\ result.excess_shelter_deduction > Dollars(624)
    /\ result_without.excess_shelter_deduction = Dollars(624)

(***************************************************************************)
(* C11: in every report the deduction components are their formulas:       *)
(* earned_income_deduction is exactly 20% of earned income, the dependent  *)
(* care and child support deductions are the full reported amounts, the    *)
(* standard deduction is the table value for the size (217 for size 4),    *)
(* and the medical deduction is max(0, medical expenses - 35) with an      *)
(* elderly/disabled member and 0 without.                                  *)
(***************************************************************************)
C11_DeductionComponents ==
    Returned =>
        /\ result.earned_income_deduction * 5 = household.monthly_earned_income
        /\ result.dependent_care_deduction = household.monthly_dependent_care
        /\ result.child_support_deduction = household.monthly_child_support
        /\ household.size \in DOMAIN STANDARD_DEDUCTIONS =>
              result.standard_deduction = Dollars(STANDARD_DEDUCTIONS[household.size])
        /\ household.size = 4 => result.standard_deduction = Dollars(217)
        /\ result.medical_deduction =
              IF household.has_elderly_disabled
              THEN Max(0, household.monthly_medical_expenses - Dollars(35))
              ELSE 0

\* A size-4 household without an elderly/disabled member that reports medical
\* expenses above 35, dependent care and child support.
C11_Witness ==
    /\ Returned
    /\ ValidHousehold(household)
    /\ household.size = 4
    /\ ~household.has_elderly_disabled
    /\ household.monthly_medical_expenses > Dollars(35)
    /\ household.monthly_earned_income = Dollars(3000)
    /\ result.earned_income_deduction = Dollars(600)
    /\ result.dependent_care_deduction = Dollars(500)
    /\ result.child_support_deduction = Dollars(200)
    /\ result.medical_deduction = 0

(***************************************************************************)
(* C12: of two households that differ in has_utility_expenses only, the    *)
(* one with the flag set has the excess shelter deduction and the benefit  *)
(* that are not smaller.                                                   *)
(***************************************************************************)
C12_UtilityFlagNeverLowers ==
    ComparedOn("has_utility_expenses") =>
        LET r_with == IF household.has_utility_expenses THEN result ELSE result_without
            r_without == IF household.has_utility_expenses THEN result_without ELSE result
        IN  /\ r_with.excess_shelter_deduction >= r_without.excess_shelter_deduction
            /\ r_with.benefit_amount >= r_without.benefit_amount

\* The households of test_utility_allowance: the flag raises the benefit.
C12_Witness ==
    /\ ComparedOn("has_utility_expenses")
    /\ household_without = SNAPHousehold(4, 2500, 0, 1000, 0, 0, 0, FALSE, FALSE)
    /\ household.has_utility_expenses
    /\ result.excess_shelter_deduction > result_without.excess_shelter_deduction
    /\ result.benefit_amount > result_without.benefit_amount

(***************************************************************************)
(* The validator.  Bounds and inputs of its model.                         *)
(***************************************************************************)
MaxTanfSteps == 2
MaxScenarios == 2

\* Households handed to the validator: the sizes 4 (tabulated) and MaxSize.
ValidatorHouseholds ==
    {SNAPHousehold(size, earned, unearned, 1500, 0, 0, 0, FALSE, FALSE) :
        size \in {4, MaxSize}, earned \in {2500, 5000}, unearned \in {0, 800}}

\* What the simulation gives for "tanf" (a yearly amount, in mills) and for the
\* monthly SNAP benefit (in mills).
TanfValues == {Dollars(k * 1200) : k \in 0..MaxTanfSteps}
PolicyEngineBenefits == {0, Dollars(400)}

\* What the screener's page shows as the benefit, in dollars.
ScrapedBenefits == {0, 250}

Refs == {"first", "second"}

\* dict.get(key, default)
Get(d, key, default) == IF key \in DOMAIN d THEN d[key] ELSE default

EmptyDict == <<>>

Returns(v) == [kind |-> "returned", value |-> v]
Raises(e) == [kind |-> "raised", error |-> e]

(***************************************************************************)
(* policyengine.py: PolicyEngineCalculator.calculate.  The simulation is   *)
(* an external engine: of the dictionary it fills, the validator reads     *)
(* "tanf_benefit" and "benefit_amount".  With include_tanf false the       *)
(* adapter sets tanf to 0 without asking the simulation.                   *)
(***************************************************************************)
PolicyEngineResult(include_tanf, tanf, snap_benefit) ==
    [tanf_benefit |-> IF include_tanf THEN tanf ELSE 0,
     benefit_amount |-> snap_benefit]

PolicyEngineOutcomes(include_tanf) ==
    {Raises("SimulationError")}
    \cup {Returns(PolicyEngineResult(include_tanf, tanf, b)) :
            tanf \in TanfValues, b \in PolicyEngineBenefits}

(***************************************************************************)
(* validator.py: validate_single.                                          *)
(***************************************************************************)
\* The statement validate_single starts at: the PolicyEngine call.
first_step_is_screener == "screener"

first_step == "policyengine"

\* What validate_single does with the outcome of the PolicyEngine call: an
\* exception is not caught.
after_policyengine_swallowing_errors(outcome) ==
    IF outcome.kind = "raised"
    THEN [pc |-> "screener", pe_result |-> EmptyDict, error |-> NoError]
    ELSE [pc |-> "screener", pe_result |-> outcome.value, error |-> NoError]

after_policyengine(outcome) ==
    IF outcome.kind = "raised"
    THEN [pc |-> "raised", pe_result |-> None, error |-> outcome.error]
    ELSE [pc |-> "screener", pe_result |-> outcome.value, error |-> NoError]

\* Whether TANF is added to the screener's household.
adds_tanf(include_tanf, pe) == include_tanf /\ Get(pe, "tanf_benefit", 0) > 0

\* The unearned income of the household with TANF added.
unearned_with_yearly_tanf(h, pe) == h.monthly_unearned_income + pe["tanf_benefit"]

unearned_with_tanf(h, pe) == h.monthly_unearned_income + pe["tanf_benefit"] \div 12

\* dataclasses.replace(household, monthly_unearned_income=...): a new object
\* under the reference `new`; the object under `ref` is left as it is.
replace_in_place(objs, ref, new, unearned) ==
    [objects |-> [objs EXCEPT ![ref].monthly_unearned_income = unearned],
     ref |-> ref]

replace(objs, ref, new, unearned) ==
    [objects |-> [objs EXCEPT ![new] =
                     [objs[ref] EXCEPT !.monthly_unearned_income = unearned]],
     ref |-> new]

\* if use_scraper and self.scraper: whether validate_single goes to the
\* scraper.  `scraper` says whether self.scraper is a scraper (not None).
uses_scraper_on_request(use_scraper, scraper) == use_scraper

uses_scraper(use_scraper, scraper) == use_scraper /\ scraper

\* The comparison dictionary.  `h` is the object `household` refers to when
\* the dictionary is built.
Comparison_difference_reversed(h, include_tanf, pe, screener) ==
    [household_size |-> h.size,
     monthly_income |-> h.monthly_earned_income,
     monthly_rent |-> h.monthly_rent,
     screener_benefit |-> Get(screener, "benefit_amount", 0),
     policyengine_benefit |-> Get(pe, "benefit_amount", 0),
     difference |-> Get(screener, "benefit_amount", 0) - Get(pe, "benefit_amount", 0),
     tanf_included |-> include_tanf /\ Get(pe, "tanf_benefit", 0) > 0,
     tanf_amount |-> IF Get(pe, "tanf_benefit", 0) # 0
                     THEN Get(pe, "tanf_benefit", 0) \div 12
                     ELSE 0,
     screener_details |-> screener,
     policyengine_details |-> pe]

Comparison(h, include_tanf, pe, screener) ==
    [household_size |-> h.size,
     monthly_income |-> h.monthly_earned_income,
     monthly_rent |-> h.monthly_rent,
     screener_benefit |-> Get(screener, "benefit_amount", 0),
     policyengine_benefit |-> Get(pe, "benefit_amount", 0),
     difference |-> Get(pe, "benefit_amount", 0) - Get(screener, "benefit_amount", 0),
     tanf_included |-> include_tanf /\ Get(pe, "tanf_benefit", 0) > 0,
     tanf_amount |-> IF Get(pe, "tanf_benefit", 0) # 0
                     THEN Get(pe, "tanf_benefit", 0) \div 12
                     ELSE 0,
     screener_details |-> screener,
     policyengine_details |-> pe]

\* A call of validate_single starts: the household object, the arguments.
Enter(h, include_tanf, trigger_sua, use_scraper) ==
    /\ objects' = [r \in Refs |-> IF r = "first" THEN h ELSE None]
    /\ household_ref' = "first"
    /\ household_at_call' = h
    /\ args' = [include_tanf |-> include_tanf, trigger_sua |-> trigger_sua,
                use_scraper |-> use_scraper]
    /\ pc' = first_step
    /\ pe_outcome' = None
    /\ pe_result' = None
    /\ household_for_screener' = NoRef
    /\ playwright' = "none"
    /\ browser' = "none"
    /\ pending' = None
    /\ scraper_outcome' = None
    /\ screener_result' = None
    /\ comparison' = None
    /\ calls' = <<>>

\* cli.py compare, the tests: a caller builds a validator and a household and
\* calls validate_single.
CallValidateSingle ==
    /\ caller = "none"
    /\ caller' = "single"
    /\ self_scraper' \in BOOLEAN
    /\ \E h \in ValidatorHouseholds, include_tanf \in BOOLEAN,
          trigger_sua \in BOOLEAN, use_scraper \in BOOLEAN :
            Enter(h, include_tanf, trigger_sua, use_scraper)
    /\ UNCHANGED <<error, batch_vars, calculator_vars>>

\* The PolicyEngine call and, when it returns, the choice of the household for
\* the screener.
CallPolicyEngine ==
    /\ pc = "policyengine"
    /\ \E outcome \in PolicyEngineOutcomes(args.include_tanf) :
        LET after == after_policyengine(outcome)
            h == objects[household_ref]
            derived == IF after.pc = "screener" /\ adds_tanf(args.include_tanf, after.pe_result)
                       THEN replace(objects, household_ref, "second",
                                    unearned_with_tanf(h, after.pe_result))
                       ELSE [objects |-> objects, ref |-> household_ref]
        IN  /\ pe_outcome' = outcome
            /\ pe_result' = after.pe_result
            /\ error' = after.error
            /\ pc' = after.pc
            /\ objects' = derived.objects
            /\ household_for_screener' =
                  IF after.pc = "screener" THEN derived.ref ELSE NoRef
    /\ calls' = Append(calls, [callee |-> "policyengine",
                               household |-> objects[household_ref],
                               include_tanf |-> args.include_tanf,
                               trigger_sua |-> args.trigger_sua])
    /\ UNCHANGED <<caller, self_scraper, household_ref, household_at_call, args,
                   playwright, browser, pending, scraper_outcome, screener_result,
                   comparison, batch_vars, calculator_vars>>

\* self.screener_calc.calculate(household_for_screener), in the else branch
\* or as the fall-back after the scraper returned None, and the rest of
\* validate_single.
CallCalculator ==
    /\ household_for_screener # NoRef
    /\ \/ pc = "screener" /\ ~uses_scraper(args.use_scraper, self_scraper)
       \/ pc = "fallback"
    /\ LET h == objects[household_for_screener]
           r == calculate(h)
       IN  /\ calls' = Append(calls, [callee |-> "calculator", household |-> h])
           /\ IF r.kind = "raised"
              THEN /\ pc' = "raised"
                   /\ error' = r.error
                   /\ UNCHANGED <<screener_result, comparison>>
              ELSE /\ pc' = "returned"
                   /\ screener_result' = r
                   /\ comparison' = Comparison(objects[household_ref],
                                               args.include_tanf, pe_result, r)
                   /\ UNCHANGED error
    /\ UNCHANGED <<caller, self_scraper, objects, household_ref, household_at_call,
                   args, pe_outcome, pe_result, household_for_screener, playwright,
                   browser, pending, scraper_outcome, batch_vars, calculator_vars>>

(***************************************************************************)
(* scraper.py: SNAPScreenerScraper.calculate, called from validate_single. *)
(* The browser and the page are external: each step on them either         *)
(* succeeds or raises.                                                     *)
(***************************************************************************)
\* The dictionary _get_results builds from the page text.
ScrapedResult(benefit) ==
    [benefit_amount |-> Dollars(benefit),
     is_eligible |-> benefit > 0,
     source |-> "snapscreener.com"]

\* What _run_calculation ends with, inside the try block of calculate:
\*   an exception of page.goto or wait_for_load_state (caught by calculate),
\*   _select_state or _fill_form returning False,
\*   _get_results catching an exception or finding no pattern,
\*   _get_results finding "not eligible", or a benefit amount.
RunCalculationOutcomes ==
    {[step |-> st, value |-> None] :
        st \in {"goto raised", "select_state failed", "fill_form failed",
                "get_results raised", "no pattern"}}
    \cup {[step |-> "not eligible", value |-> ScrapedResult(0)]}
    \cup {[step |-> "benefit found", value |-> ScrapedResult(b)] : b \in ScrapedBenefits}

\* An exception leaves SNAPScreenerScraper.calculate through the with
\* statement, which stops playwright on the way.
ScraperRaises(e) ==
    /\ playwright' = IF playwright = "started" THEN "stopped" ELSE playwright
    /\ scraper_outcome' = Raises(e)
    /\ pc' = "scraper done"

\* validate_single calls self.scraper.calculate(household_for_screener);
\* sync_playwright() is entered.
CallScraper ==
    /\ pc = "screener"
    /\ household_for_screener # NoRef
    /\ uses_scraper(args.use_scraper, self_scraper)
    /\ calls' = Append(calls, [callee |-> "scraper",
                               household |-> objects[household_for_screener]])
    /\ \/ /\ playwright' = "started"
          /\ pc' = "launch"
          /\ UNCHANGED scraper_outcome
       \/ ScraperRaises("sync_playwright failed")
    /\ UNCHANGED <<caller, self_scraper, objects, household_ref, household_at_call,
                   args, pe_outcome, pe_result, household_for_screener, browser,
                   pending, screener_result, comparison, error, batch_vars,
                   calculator_vars>>

\* browser = p.chromium.launch(headless=self.headless)
ScraperLaunch ==
    /\ pc = "launch"
    /\ \/ /\ browser' = "open"
          /\ pc' = "new_page"
          /\ UNCHANGED <<playwright, scraper_outcome>>
       \/ /\ ScraperRaises("launch failed")
          /\ UNCHANGED browser
    /\ UNCHANGED <<caller, self_scraper, objects, household_ref, household_at_call,
                   args, pe_outcome, pe_result, household_for_screener, pending,
                   screener_result, comparison, error, calls, batch_vars,
                   calculator_vars>>

\* page = browser.new_page(); page.set_default_timeout(self.timeout): both
\* before the try block.
ScraperNewPage ==
    /\ pc = "new_page"
    /\ \/ /\ pc' = "run_calculation"
          /\ UNCHANGED <<playwright, scraper_outcome>>
       \/ ScraperRaises("new_page failed")
       \/ ScraperRaises("set_default_timeout failed")
    /\ UNCHANGED <<caller, self_scraper, objects, household_ref, household_at_call,
                   args, pe_outcome, pe_result, household_for_screener, browser,
                   pending, screener_result, comparison, error, calls, batch_vars,
                   calculator_vars>>

\* try: result = self._run_calculation(page, household); return result
\* except Exception: return None
ScraperRunCalculation ==
    /\ pc = "run_calculation"
    /\ \E outcome \in RunCalculationOutcomes : pending' = outcome
    /\ pc' = "close"
    /\ UNCHANGED <<caller, self_scraper, objects, household_ref, household_at_call,
                   args, pe_outcome, pe_result, household_for_screener, playwright,
                   browser, scraper_outcome, screener_result, comparison, error,
                   calls, batch_vars, calculator_vars>>

\* finally: browser.close(), then the end of the with statement.
ScraperClose ==
    /\ pc = "close"
    /\ \/ /\ browser' = "closed"
          /\ playwright' = "stopped"
          /\ scraper_outcome' = Returns(pending.value)
          /\ pc' = "scraper done"
       \/ /\ ScraperRaises("close failed")
          /\ UNCHANGED browser
    /\ UNCHANGED <<caller, self_scraper, objects, household_ref, household_at_call,
                   args, pe_outcome, pe_result, household_for_screener, pending,
                   screener_result, comparison, error, calls, batch_vars,
                   calculator_vars>>

\* validate_single after self.scraper.calculate: an exception is not caught,
\* None leads to the fall-back, a dictionary to the comparison.
AfterScraper ==
    /\ pc = "scraper done"
    /\ IF scraper_outcome.kind = "raised"
       THEN /\ pc' = "raised"
            /\ error' = scraper_outcome.error
            /\ UNCHANGED <<screener_result, comparison>>
       ELSE IF scraper_outcome.value = None
       THEN /\ pc' = "fallback"
            /\ UNCHANGED <<screener_result, comparison, error>>
       ELSE /\ pc' = "returned"
            /\ screener_result' = scraper_outcome.value
            /\ comparison' = Comparison(objects[household_ref], args.include_tanf,
                                        pe_result, scraper_outcome.value)
            /\ UNCHANGED error
    /\ UNCHANGED <<caller, self_scraper, objects, household_ref, household_at_call,
                   args, pe_outcome, pe_result, household_for_screener, playwright,
                   browser, pending, scraper_outcome, calls, batch_vars,
                   calculator_vars>>

(***************************************************************************)
(* validator.py: validate_scenarios.                                       *)
(***************************************************************************)
\* A scenario dictionary.  well_formed says whether its "household" entry
\* has the keyword arguments SNAPHousehold(**...) accepts; name is None when
\* the scenario has no "name"; options holds the keys it gives.
Scenario(name, well_formed, h, options) ==
    [name |-> name, well_formed |-> well_formed, household |-> h, options |-> options]

NoName == "<no name>"

BatchScenarios ==
    {Scenario("Low income", TRUE,
              SNAPHousehold(4, 2500, 0, 1500, 0, 0, 0, FALSE, FALSE),
              [include_tanf |-> TRUE]),
     Scenario("High income", TRUE,
              SNAPHousehold(4, 5000, 0, 1500, 0, 0, 0, FALSE, FALSE),
              [include_tanf |-> FALSE, use_scraper |-> TRUE]),
     Scenario(NoName, TRUE,
              SNAPHousehold(4, 2500, 0, 1500, 0, 0, 0, FALSE, FALSE),
              EmptyDict),
     Scenario("Missing fields", FALSE, None, EmptyDict),
     Scenario("Large", TRUE,
              SNAPHousehold(MaxSize, 2500, 0, 1500, 0, 0, 0, FALSE, FALSE),
              [use_scraper |-> TRUE, trigger_sua |-> TRUE])}

\* The defaults of options.get(...) in validate_scenarios.
DefaultOptionsWithoutTanf ==
    [include_tanf |-> FALSE, trigger_sua |-> FALSE, use_scraper |-> FALSE]

DefaultOptions ==
    [include_tanf |-> TRUE, trigger_sua |-> FALSE, use_scraper |-> FALSE]

ScenarioLists ==
    UNION {[1..n -> BatchScenarios] : n \in 0..MaxScenarios}

\* cli.py batch (SNAPValidator() without a scraper), the tests, or any other
\* caller with a validator of its own: validate_scenarios is called.
CallValidateScenarios ==
    /\ caller = "none"
    /\ caller' = "batch"
    /\ self_scraper' \in BOOLEAN
    /\ scenarios' \in ScenarioLists
    /\ index' = 1
    /\ results' = <<>>
    /\ batch_pc' = "loop"
    /\ UNCHANGED <<call_vars, error, calculator_vars>>

\* The for loop: the next scenario's household is constructed and
\* validate_single is called; after the last scenario the DataFrame of the
\* results is returned.
BatchIterate ==
    /\ batch_pc = "loop"
    /\ IF index > Len(scenarios)
       THEN /\ batch_pc' = "returned"
            /\ UNCHANGED <<call_vars, error>>
       ELSE LET scenario == scenarios[index]
                options == scenario.options
            IN  IF ~scenario.well_formed
                THEN /\ batch_pc' = "raised"
                     /\ error' = "TypeError"
                     /\ UNCHANGED call_vars
                ELSE /\ batch_pc' = "in validate_single"
                     /\ Enter(scenario.household,
                              Get(options, "include_tanf", DefaultOptions.include_tanf),
                              Get(options, "trigger_sua", DefaultOptions.trigger_sua),
                              Get(options, "use_scraper", DefaultOptions.use_scraper))
                     /\ UNCHANGED error
    /\ UNCHANGED <<caller, self_scraper, scenarios, index, results, calculator_vars>>

\* validate_single returned: the scenario name is added and the comparison
\* is appended to results.
BatchAppend ==
    /\ batch_pc = "in validate_single"
    /\ pc = "returned"
    /\ LET scenario == scenarios[index]
           row == IF scenario.name # NoName
                  THEN ("scenario" :> scenario.name) @@ comparison
                  ELSE comparison
       IN  results' = Append(results, row)
    /\ index' = index + 1
    /\ batch_pc' = "loop"
    /\ objects' = None
    /\ household_ref' = NoRef
    /\ household_at_call' = None
    /\ args' = None
    /\ pc' = "idle"
    /\ pe_outcome' = None
    /\ pe_result' = None
    /\ household_for_screener' = NoRef
    /\ playwright' = "none"
    /\ browser' = "none"
    /\ pending' = None
    /\ scraper_outcome' = None
    /\ screener_result' = None
    /\ comparison' = None
    /\ calls' = <<>>
    /\ UNCHANGED <<caller, self_scraper, scenarios, error, calculator_vars>>

\* validate_single raised: nothing in validate_scenarios catches it.
BatchRaise ==
    /\ batch_pc = "in validate_single"
    /\ pc = "raised"
    /\ batch_pc' = "raised"
    /\ UNCHANGED <<caller, self_scraper, call_vars, error, scenarios, index, results,
                   calculator_vars>>

ValidatorNext ==
    \/ CallValidateSingle
    \/ CallPolicyEngine
    \/ CallCalculator
    \/ CallScraper
    \/ ScraperLaunch
    \/ ScraperNewPage
    \/ ScraperRunCalculation
    \/ ScraperClose
    \/ AfterScraper
    \/ CallValidateScenarios
    \/ BatchIterate
    \/ BatchAppend
    \/ BatchRaise

ValidatorSpec == Init /\ [][ValidatorNext]_vars

(***************************************************************************)
(* Vocabulary of the validator's properties.                               *)
(***************************************************************************)
\* validate_single is past its PolicyEngine call and not yet done.
AtScreener ==
    pc \in {"screener", "launch", "new_page", "run_calculation", "close",
            "scraper done", "fallback"}

\* The positions in calls of the screener computations (calculator, scraper).
ScreenerCalls == {n \in DOMAIN calls : calls[n].callee \in {"calculator", "scraper"}}

\* The scraper returned None and the calculator was called after it.
FellBack ==
    /\ scraper_outcome.kind = "returned"
    /\ scraper_outcome.value = None
    /\ Len(calls) = 3
    /\ calls[2].callee = "scraper"
    /\ calls[3].callee = "calculator"

(***************************************************************************)
(* C13: in validate_single the PolicyEngine call has completed before any  *)
(* screener computation (calculator or scraper) starts, and the screener   *)
(* runs with the adapter's result in hand.                                 *)
(***************************************************************************)
C13_PolicyEngineBeforeScreener ==
    /\ AtScreener => (pe_outcome.kind = "returned" /\ pe_result = pe_outcome.value)
    /\ \A n \in ScreenerCalls :
          /\ n > 1
          /\ calls[1].callee = "policyengine"
          /\ pe_outcome.kind = "returned"
          /\ pe_result = pe_outcome.value

\* A call that went through the adapter, the scraper and the calculator.
C13_Witness ==
    /\ pc = "returned"
    /\ Len(calls) = 3
    /\ calls[1].callee = "policyengine"
    /\ calls[2].callee = "scraper"
    /\ calls[3].callee = "calculator"

(***************************************************************************)
(* C14: with include_tanf true and a positive tanf_benefit the screener    *)
(* (calculator or scraper) runs on the input household with                *)
(* monthly_unearned_income raised by tanf_benefit / 12, and the report has *)
(* tanf_included true and tanf_amount equal to that amount; otherwise the  *)
(* screener runs on the input household unchanged and tanf_included is     *)
(* false.                                                                  *)
(***************************************************************************)
C14_TanfAddedToScreenerHousehold ==
    \A n \in ScreenerCalls :
        LET tanf == pe_outcome.value.tanf_benefit
        IN  IF args.include_tanf /\ tanf > 0
            THEN /\ calls[n].household =
                       [household_at_call EXCEPT
                           !.monthly_unearned_income = @ + tanf \div 12]
                 /\ pc = "returned" =>
                       (comparison.tanf_included /\ comparison.tanf_amount = tanf \div 12)
            ELSE /\ calls[n].household = household_at_call
                 /\ pc = "returned" => ~comparison.tanf_included

\* A yearly TANF of 1200 reaches the calculator as 100 more unearned income.
C14_Witness ==
    /\ pc = "returned"
    /\ pe_result.tanf_benefit = Dollars(1200)
    /\ comparison.tanf_included
    /\ comparison.tanf_amount = Dollars(100)
    /\ calls[Len(calls)].callee = "calculator"
    /\ screener_result.gross_income = gross_income(household_at_call) + Dollars(100)

(***************************************************************************)
(* C15: validate_single never changes the household it is given, and the   *)
(* household with TANF added is another object.                            *)
(***************************************************************************)
C15_HouseholdNotMutated ==
    pc # "idle" =>
        /\ objects[household_ref] = household_at_call
        /\ (household_for_screener # NoRef /\ adds_tanf(args.include_tanf, pe_result)) =>
              /\ household_for_screener # household_ref
              /\ objects[household_for_screener] # objects[household_ref]

\* A call that returned after adding TANF: two objects, the first untouched.
C15_Witness ==
    /\ pc = "returned"
    /\ comparison.tanf_included
    /\ household_for_screener = "second"
    /\ objects["first"] = household_at_call
    /\ objects["second"].monthly_unearned_income
          > objects["first"].monthly_unearned_income

(***************************************************************************)
(* C16: when the scraper was requested and returned None, the calculator   *)
(* is run on the same household, its report is the screener result, and    *)
(* validate_single returns a comparison and raises nothing.                *)
(***************************************************************************)
C16_FallbackReturnsComparison ==
    (scraper_outcome.kind = "returned" /\ scraper_outcome.value = None
     /\ pc \notin {"scraper done", "fallback"}) =>
        /\ FellBack
        /\ calls[3].household = calls[2].household
        /\ pc = "returned"
        /\ screener_result = calculate(calls[2].household)
        /\ comparison.screener_details = screener_result

(***************************************************************************)
(* C17: a comparison returned after the fall-back is marked as degraded,   *)
(* so that it differs from the one validate_single returns when the        *)
(* scraper is not requested.                                               *)
(***************************************************************************)
C17_FallbackMarkedDegraded ==
    (pc = "returned" /\ FellBack) =>
        /\ "degraded" \in DOMAIN comparison
        /\ comparison # Comparison(objects[household_ref], args.include_tanf, pe_result,
                                   calculate(objects[household_for_screener]))

(***************************************************************************)
(* C18: SNAPScreenerScraper.calculate never raises: it returns None or a   *)
(* report with at least benefit_amount, is_eligible and source.            *)
(***************************************************************************)
C18_ScraperNeverRaises ==
    scraper_outcome # None =>
        /\ scraper_outcome.kind = "returned"
        /\ \/ scraper_outcome.value = None
           \/ {"benefit_amount", "is_eligible", "source"}
                 \subseteq DOMAIN scraper_outcome.value

(***************************************************************************)
(* C19: when the PolicyEngine adapter raises, validate_single raises the   *)
(* same error: no comparison, no substituted pe_result, no calculator or   *)
(* scraper call, and in a batch no row for the scenario.                   *)
(***************************************************************************)
C19_AdapterErrorPropagates ==
    pe_outcome.kind = "raised" =>
        /\ pc = "raised"
        /\ error = pe_outcome.error
        /\ comparison = None
        /\ pe_result = None
        /\ screener_result = None
        /\ ScreenerCalls = {}
        /\ caller = "batch" => Len(results) = index - 1

C19_Witness ==
    /\ caller = "single"
    /\ pc = "raised"
    /\ pe_outcome.kind = "raised"
    /\ error = "SimulationError"
    /\ Len(calls) = 1

C21_OneRowPerScenarioInOrder ==
    caller = "batch" =>
        /\ batch_pc = "returned" => Len(results) = Len(scenarios)
        /\ batch_pc \in {"loop", "in validate_single"} => Len(results) = index - 1
        /\ \A j \in 1..Len(results) :
              /\ results[j].household_size = scenarios[j].household.size
              /\ results[j].monthly_income =
                    scenarios[j].household.monthly_earned_income
              /\ IF scenarios[j].name # NoName
                 THEN /\ "scenario" \in DOMAIN results[j]
                      /\ results[j]["scenario"] = scenarios[j].name
                 ELSE "scenario" \notin DOMAIN results[j]
        /\ batch_pc = "in validate_single" =>
              LET options == scenarios[index].options
              IN  /\ args.include_tanf =
                        IF "include_tanf" \in DOMAIN options
                        THEN options["include_tanf"] ELSE TRUE
                  /\ args.trigger_sua =
                        IF "trigger_sua" \in DOMAIN options
                        THEN options["trigger_sua"] ELSE FALSE
                  /\ args.use_scraper =
                        IF "use_scraper" \in DOMAIN options
                        THEN options["use_scraper"] ELSE FALSE

\* A batch of the named scenario "High income" and the scenario without name
\* and options, which got TANF by default.
C21_Witness ==
    /\ caller = "batch"
    /\ batch_pc = "returned"
    /\ Len(scenarios) = 2
    /\ Len(results) = 2
    /\ "scenario" \in DOMAIN results[1]
    /\ results[1]["scenario"] = "High income"
    /\ results[1].monthly_income = Dollars(5000)
    /\ "scenario" \notin DOMAIN results[2]
    /\ results[2].monthly_income = Dollars(2500)
    /\ results[2].tanf_included

(***************************************************************************)
(* C22: in every comparison validate_single returns, screener_benefit is   *)
(* screener_details.benefit_amount, policyengine_benefit is                *)
(* policyengine_details.benefit_amount, difference is policyengine_benefit *)
(* minus screener_benefit, and household_size, monthly_income and          *)
(* monthly_rent are those of the household given by the caller, also when  *)
(* the screener ran on the household with TANF added.                      *)
(***************************************************************************)
C22_ComparisonFields ==
    pc = "returned" =>
        /\ comparison.screener_benefit = comparison.screener_details.benefit_amount
        /\ comparison.policyengine_benefit =
              comparison.policyengine_details.benefit_amount
        /\ comparison.difference =
              comparison.policyengine_benefit - comparison.screener_benefit
        /\ comparison.household_size = household_at_call.size
        /\ comparison.monthly_income = household_at_call.monthly_earned_income
        /\ comparison.monthly_rent = household_at_call.monthly_rent
        /\ comparison.screener_details = screener_result
        /\ comparison.policyengine_details = pe_outcome.value

\* A comparison with a difference other than 0, made after the calculator
\* ran on the household with TANF added.
C22_Witness ==
    /\ pc = "returned"
    /\ comparison.tanf_included
    /\ household_for_screener = "second"
    /\ calls[Len(calls)].callee = "calculator"
    /\ comparison.policyengine_benefit = Dollars(400)
    /\ comparison.screener_benefit > 0
    /\ comparison.difference < 0
    /\ comparison.monthly_income = Dollars(2500)

(***************************************************************************)
(* C23: for a household of 7 or 8 people calculate uses a real standard    *)
(* deduction (from an extended table, or 294 + (size - 6) * 39), never the *)
(* 0 of a missing table entry.                                             *)
(***************************************************************************)
C23_StandardDeductionForSevenAndEight ==
    (Returned /\ ValidHousehold(household) /\ household.size \in {7, 8}) =>
        result.standard_deduction > 0

(***************************************************************************)
(* C25: calculate never short-circuits on a failed income test: the        *)
(* benefit_amount of every report is                                       *)
(* round(max(0, max_allotment - max(0, 0.30 * net_income))), whether the   *)
(* gross and the net test passed or not.                                   *)
(***************************************************************************)
C25_NoShortCircuit ==
    Returned =>
        LET contribution == IF result.net_income > 0
                            THEN (result.net_income * 30) \div 100
                            ELSE 0
            unrounded_benefit == IF result.max_allotment > contribution
                                 THEN result.max_allotment - contribution
                                 ELSE 0
        IN  /\ result.expected_contribution = contribution
            /\ result.benefit_amount = round(unrounded_benefit)

\* A valid household that fails the gross income test and is not eligible,
\* with a positive benefit_amount all the same.
C25_Witness ==
    /\ Returned
    /\ ValidHousehold(household)
    /\ ~result.passes_gross_test
    /\ ~result.is_eligible
    /\ result.benefit_amount > 0

(***************************************************************************)
(* C24: every browser session SNAPScreenerScraper.calculate launches is    *)
(* closed when calculate exits, on every exit path, an exception of        *)
(* new_page or set_default_timeout included.                               *)
(***************************************************************************)
C24_BrowserClosedOnExit ==
    pc \in {"scraper done", "fallback", "returned", "raised"} =>
        browser \in {"none", "closed"}

(***************************************************************************)
(* C26: validate_single calls the scraper only when its use_scraper        *)
(* argument is true and the validator was constructed with a scraper; in   *)
(* every other combination the calculator is what is called for the        *)
(* screener result, so that a use_scraper option given to a validator      *)
(* without a scraper is ignored: no browser is touched, no error comes     *)
(* from it and the comparison carries no marker of it.                     *)
(***************************************************************************)
C26_ScraperOnlyWhenBoth ==
    pc # "idle" =>
        /\ (\E n \in DOMAIN calls : calls[n].callee = "scraper") =>
              (args.use_scraper /\ self_scraper)
        /\ (args.use_scraper /\ self_scraper /\ pc = "returned") =>
              calls[2].callee = "scraper"
        /\ ~(args.use_scraper /\ self_scraper) =>
              /\ playwright = "none"
              /\ browser = "none"
              /\ scraper_outcome = None
              /\ pc = "returned" =>
                    /\ Len(calls) = 2
                    /\ calls[2].callee = "calculator"
                    /\ screener_result = calculate(calls[2].household)
                    /\ error = NoError
                    /\ DOMAIN comparison =
                          {"household_size", "monthly_income", "monthly_rent",
                           "screener_benefit", "policyengine_benefit", "difference",
                           "tanf_included", "tanf_amount", "screener_details",
                           "policyengine_details"}
              /\ pc = "raised" =>
                    \/ pe_outcome.kind = "raised" /\ Len(calls) = 1
                    \/ /\ Len(calls) = 2
                       /\ calls[2].callee = "calculator"
                       /\ calculate(calls[2].household).kind = "raised"

\* A scenario with use_scraper true, in a batch of a validator without a
\* scraper: the calculator gave the screener result.
C26_Witness ==
    /\ caller = "batch"
    /\ ~self_scraper
    /\ pc = "returned"
    /\ args.use_scraper
    /\ Len(calls) = 2
    /\ calls[2].callee = "calculator"
    /\ comparison.screener_details.kind = "report"
    /\ error = NoError

====
